---- MODULE Spec2Model ----
(***************************************************************************)
(* License classificator: the record store (app/db/repo.py), the two       *)
(* classification providers (app/llm/*.py), the spreadsheet reader         *)
(* (app/services/excel_io.py) and the HTTP handlers (app/api/routes.py).   *)
(*                                                                         *)
(* Texts are sequences of one-character strings, so that strip() and       *)
(* [:150] are computed, not assumed.  A nullable column is None (<<>>) or  *)
(* Some(v) (<<v>>).                                                        *)
(***************************************************************************)
EXTENDS Integers, Sequences, FiniteSets, TLC

\* ------------------------------------------------------------------ bounds
MaxId == 2         \* license ids of the model are 1..MaxId
MaxRequests == 3   \* POST /classify and PATCH requests of one run
MaxRepoCalls == 3  \* direct repository calls of one run (SpecRepo)

\* ------------------------------------------------------------------- texts
None == << >>
Some(v) == << v >>
IsNone(o) == o = << >>
Val(o) == o[1]

Min(a, b) == IF a <= b THEN a ELSE b

Rep(c, n) == [i \in 1..n |-> c]

Whitespace == {" ", "\t", "\n"}

\* str.strip() with no argument: leading and trailing whitespace removed
RECURSIVE LStrip(_)
LStrip(s) == IF s # << >> /\ Head(s) \in Whitespace THEN LStrip(Tail(s)) ELSE s

RECURSIVE RStrip(_)
RStrip(s) ==
    IF s # << >> /\ s[Len(s)] \in Whitespace
    THEN RStrip(SubSeq(s, 1, Len(s) - 1))
    ELSE s

Strip(s) == RStrip(LStrip(s))

\* s[:n]
Take(s, n) == SubSeq(s, 1, Min(n, Len(s)))

\* the 150 of explanation[:150]
MaxExplanation == 150

Productivity == <<"P", "r", "o", "d", "u", "c", "t", "i", "v", "i", "t", "y">>
Design == <<"D", "e", "s", "i", "g", "n">>
Communication == <<"C", "o", "m", "m", "u", "n", "i", "c", "a", "t", "i", "o", "n">>
Development == <<"D", "e", "v", "e", "l", "o", "p", "m", "e", "n", "t">>
Finance == <<"F", "i", "n", "a", "n", "c", "e">>
Marketing == <<"M", "a", "r", "k", "e", "t", "i", "n", "g">>

ALLOWED == {Productivity, Design, Communication, Development, Finance, Marketing}

FallbackSentence ==
    <<"F", "a", "l", "l", "b", "a", "c", "k", " ", "c", "l", "a", "s", "s", "i",
      "f", "i", "c", "a", "t", "i", "o", "n", " ", "d", "u", "e", " ", "t", "o",
      " ", "i", "n", "v", "a", "l", "i", "d", " ", "m", "o", "d", "e", "l", " ",
      "o", "u", "t", "p", "u", "t", ".">>

KeyTypology == <<"t", "y", "p", "o", "l", "o", "g", "y">>
KeyExplanation == <<"e", "x", "p", "l", "a", "n", "a", "t", "i", "o", "n">>
DescKey == <<"n", "o", "t", "e">>

\* texts used as inputs
NotARealLabel == <<"N", "o", "t", "A", "R", "e", "a", "l", "L", "a", "b", "e", "l">>
OfficeSuite == <<"O", "f", "f", "i", "c", "e", " ", "s", "u", "i", "t", "e">>
LongA == Rep("a", MaxExplanation + 1)
LongAB == Rep("a", MaxExplanation) \o <<"b", "c">>
PaddedLong == <<" ">> \o Rep("z", MaxExplanation - 1) \o <<" ", "y">>

\* ------------------------------------------------------------------- JSON
(* The text a backend returns is a sequence of lexical tokens: punctuation, *)
(* string literals (with their characters), numbers, null, whitespace and   *)
(* anything else ("junk").  json_loads parses it as json.loads does for     *)
(* flat documents: a scalar, an array of scalars, or an object whose values *)
(* are scalars; everything else is a JSONDecodeError.                       *)
Tok(t) == [t |-> t]
StrTok(s) == [t |-> "str", v |-> s]
WS == Tok("ws")
LBrace == Tok("{")
RBrace == Tok("}")
LBracket == Tok("[")
RBracket == Tok("]")
Colon == Tok(":")
Comma == Tok(",")
NumTok == Tok("num")
NullTok == Tok("null")
Junk == Tok("junk")

IsScalarTok(k) == k.t \in {"str", "num", "null"}

\* raw.strip() on the reply text
RECURSIVE LStripToks(_)
LStripToks(r) == IF r # << >> /\ Head(r).t = "ws" THEN LStripToks(Tail(r)) ELSE r

RECURSIVE RStripToks(_)
RStripToks(r) ==
    IF r # << >> /\ r[Len(r)].t = "ws"
    THEN RStripToks(SubSeq(r, 1, Len(r) - 1))
    ELSE r

StripRaw(r) == RStripToks(LStripToks(r))

NotWs(k) == k.t # "ws"

\* members of an object: k : v , k : v ...
PairsOk(inner) ==
    /\ Len(inner) % 4 = 3
    /\ \A i \in 1..Len(inner) :
          CASE i % 4 = 1 -> inner[i].t = "str"
            [] i % 4 = 2 -> inner[i].t = ":"
            [] i % 4 = 3 -> IsScalarTok(inner[i])
            [] OTHER -> inner[i].t = ","

\* elements of an array: v , v ...
ElemsOk(inner) ==
    /\ Len(inner) % 2 = 1
    /\ \A i \in 1..Len(inner) :
          IF i % 2 = 1 THEN IsScalarTok(inner[i]) ELSE inner[i].t = ","

ObjKeys(inner) == {inner[i].v : i \in {j \in 1..Len(inner) : j % 4 = 1}}

\* a dict keeps the last value of a repeated key
ObjValue(inner, key) ==
    LET at == {j \in 1..Len(inner) : j % 4 = 1 /\ inner[j].v = key}
        last == CHOOSE j \in at : \A k \in at : k <= j
    IN  inner[last + 2]

ParseError == [ok |-> FALSE]

json_loads(raw) ==
    LET toks == SelectSeq(raw, NotWs)
        n == Len(toks)
        inner == SubSeq(toks, 2, n - 1)
    IN  IF n = 0 THEN ParseError
        ELSE IF n = 1
        THEN IF IsScalarTok(toks[1])
             THEN [ok |-> TRUE, kind |-> toks[1].t]
             ELSE ParseError
        ELSE IF toks[1].t = "{" /\ toks[n].t = "}"
        THEN IF n = 2
             THEN [ok |-> TRUE, kind |-> "object", keys |-> {}, inner |-> << >>]
             ELSE IF PairsOk(inner)
             THEN [ok |-> TRUE, kind |-> "object",
                   keys |-> ObjKeys(inner), inner |-> inner]
             ELSE ParseError
        ELSE IF toks[1].t = "[" /\ toks[n].t = "]"
        THEN IF n = 2 \/ ElemsOk(inner)
             THEN [ok |-> TRUE, kind |-> "array"]
             ELSE ParseError
        ELSE ParseError

\* obj.get(key, ""): the value's token, or the empty string when the key is absent
DictGet(obj, key) ==
    IF key \in obj.keys THEN ObjValue(obj.inner, key) ELSE StrTok(<< >>)

\* ------------------------------------------------- classification providers
(* What a backend call ends in: a transport failure (network error,         *)
(* raise_for_status, missing API key), or a reply whose text field is       *)
(* absent (no "response" key / message.content None) or present.            *)
TransportFailure == [status |-> "error"]
Reply(text) == [status |-> "ok", text |-> text]

Failure == [ok |-> FALSE]
LLMResult(t, e) == [ok |-> TRUE, typology |-> t, explanation |-> e]

\* variant: the label is returned as extracted, valid or not
OllamaClassify_NoFallback(reply) ==
    IF reply.status # "ok" THEN Failure
    ELSE LET raw == StripRaw(IF IsNone(reply.text) THEN << >> ELSE Val(reply.text))
             obj == json_loads(raw)
         IN  IF ~obj.ok THEN Failure
             ELSE IF obj.kind # "object" THEN Failure
             ELSE LET tv == DictGet(obj, KeyTypology)
                      ev == DictGet(obj, KeyExplanation)
                  IN  IF tv.t # "str" \/ ev.t # "str" THEN Failure
                      ELSE LLMResult(Strip(tv.v), Take(Strip(ev.v), MaxExplanation))

\* variant: a reply that is no JSON object yields the fallback result
OllamaClassify_SilentFallback(reply) ==
    IF reply.status # "ok" THEN Failure
    ELSE LET raw == StripRaw(IF IsNone(reply.text) THEN << >> ELSE Val(reply.text))
             obj == json_loads(raw)
         IN  IF ~obj.ok \/ obj.kind # "object"
             THEN LLMResult(Productivity, FallbackSentence)
             ELSE LET tv == DictGet(obj, KeyTypology)
                      ev == DictGet(obj, KeyExplanation)
                  IN  IF tv.t # "str" \/ ev.t # "str" THEN Failure
                      ELSE LET typology == Strip(tv.v)
                               explanation == Take(Strip(ev.v), MaxExplanation)
                           IN  IF typology \notin ALLOWED
                               THEN LLMResult(Productivity,
                                        Take(IF explanation # << >>
                                             THEN explanation
                                             ELSE FallbackSentence, MaxExplanation))
                               ELSE LLMResult(typology, explanation)

\* OllamaClient.classify_license, from the HTTP outcome on
OllamaClassify(reply) ==
    IF reply.status # "ok" THEN Failure
    ELSE LET raw == StripRaw(IF IsNone(reply.text) THEN << >> ELSE Val(reply.text))
             obj == json_loads(raw)
         IN  IF ~obj.ok THEN Failure                      \* JSONDecodeError
             ELSE IF obj.kind # "object" THEN Failure     \* no .get
             ELSE LET tv == DictGet(obj, KeyTypology)
                      ev == DictGet(obj, KeyExplanation)
                  IN  IF tv.t # "str" \/ ev.t # "str" THEN Failure  \* no .strip
                      ELSE LET typology == Strip(tv.v)
                               explanation == Take(Strip(ev.v), MaxExplanation)
                           IN  IF typology \notin ALLOWED
                               THEN LLMResult(Productivity,
                                        Take(IF explanation # << >>
                                             THEN explanation
                                             ELSE FallbackSentence, MaxExplanation))
                               ELSE LLMResult(typology, explanation)

\* what OllamaClient sends for a license name: "system" and "prompt" of the
\* payload, the prompt being the text before the name, the name, the text after
SYSTEM ==
    "You classify software license names into exactly one typology: Productivity, Design, Communication, Development, Finance, Marketing. Return strict JSON only."

OllamaPrompt(license_name) ==
    [system |-> SYSTEM,
     head |-> "Classify this license name: \"",
     name |-> license_name,
     tail |-> "\"\n\nRules:\n- typology must be one of: ['Communication', 'Design', 'Development', 'Finance', 'Marketing', 'Productivity']\n- explanation must be <= 150 characters\nReturn JSON like:\n{\"typology\":\"...\", \"explanation\":\"...\"}"]

\* what OpenAIClient sends: the system message and the user message (msg)
OpenAIPrompt(license_name) ==
    [system |-> "Return strict JSON only. No prose.",
     head |-> "Classify \"",
     name |-> license_name,
     tail |-> "\" into exactly one of:\nProductivity, Design, Communication, Development, Finance, Marketing.\nReturn strict JSON: {\"typology\":\"...\", \"explanation\":\"<=150 chars\"}"]

\* variant: the extracted label is not trimmed before it is validated
OpenAIClassify_Untrimmed(reply) ==
    IF reply.status # "ok" THEN Failure
    ELSE LET content == IF IsNone(reply.text) THEN << >> ELSE Val(reply.text)
             raw == StripRaw(content)
             obj == json_loads(raw)
         IN  IF ~obj.ok THEN Failure
             ELSE IF obj.kind # "object" THEN Failure
             ELSE LET tv == DictGet(obj, KeyTypology)
                      ev == DictGet(obj, KeyExplanation)
                  IN  IF tv.t # "str" \/ ev.t # "str" THEN Failure
                      ELSE LET typology == tv.v
                               explanation == Take(Strip(ev.v), MaxExplanation)
                           IN  IF typology \notin ALLOWED
                               THEN LLMResult(Productivity,
                                        Take(IF explanation # << >>
                                             THEN explanation
                                             ELSE FallbackSentence, MaxExplanation))
                               ELSE LLMResult(typology, explanation)

\* variant: the explanation is not cut to 150 characters
OpenAIClassify_Untruncated(reply) ==
    IF reply.status # "ok" THEN Failure
    ELSE LET content == IF IsNone(reply.text) THEN << >> ELSE Val(reply.text)
             raw == StripRaw(content)
             obj == json_loads(raw)
         IN  IF ~obj.ok THEN Failure
             ELSE IF obj.kind # "object" THEN Failure
             ELSE LET tv == DictGet(obj, KeyTypology)
                      ev == DictGet(obj, KeyExplanation)
                  IN  IF tv.t # "str" \/ ev.t # "str" THEN Failure
                      ELSE LET typology == Strip(tv.v)
                               explanation == Strip(ev.v)
                           IN  IF typology \notin ALLOWED
                               THEN LLMResult(Productivity,
                                        IF explanation # << >>
                                        THEN explanation
                                        ELSE FallbackSentence)
                               ELSE LLMResult(typology, explanation)

\* OpenAIClient.classify_license, from the API outcome on
OpenAIClassify(reply) ==
    IF reply.status # "ok" THEN Failure
    ELSE LET content == IF IsNone(reply.text) THEN << >> ELSE Val(reply.text)
             raw == StripRaw(content)
             obj == json_loads(raw)
         IN  IF ~obj.ok THEN Failure
             ELSE IF obj.kind # "object" THEN Failure
             ELSE LET tv == DictGet(obj, KeyTypology)
                      ev == DictGet(obj, KeyExplanation)
                  IN  IF tv.t # "str" \/ ev.t # "str" THEN Failure
                      ELSE LET typology == Strip(tv.v)
                               explanation == Take(Strip(ev.v), MaxExplanation)
                           IN  IF typology \notin ALLOWED
                               THEN LLMResult(Productivity,
                                        Take(IF explanation # << >>
                                             THEN explanation
                                             ELSE FallbackSentence, MaxExplanation))
                               ELSE LLMResult(typology, explanation)

Providers == {"ollama", "openai"}

\* get_llm_client().classify_license
classify_license(provider, reply) ==
    IF provider = "openai" THEN OpenAIClassify(reply) ELSE OllamaClassify(reply)

\* the request get_llm_client() builds for a license name
build_prompt(provider, license_name) ==
    IF provider = "openai" THEN OpenAIPrompt(license_name)
    ELSE OllamaPrompt(license_name)

\* the text of a JSON object with the given members (<<key, value token>>)
RECURSIVE MemberToks(_)
MemberToks(ms) ==
    IF ms = << >> THEN << >>
    ELSE <<StrTok(Head(ms)[1]), Colon, Head(ms)[2]>>
         \o (IF Len(ms) = 1 THEN << >> ELSE <<Comma>> \o MemberToks(Tail(ms)))

Obj(ms) == <<LBrace>> \o MemberToks(ms) \o <<RBrace>>

\* reply texts the model draws from
TypologyToks ==
    {StrTok(Design), StrTok(<<" ">> \o Finance \o <<"\n">>), StrTok(NotARealLabel),
     StrTok(<< >>), NullTok, NumTok}
ExplanationToks ==
    {StrTok(OfficeSuite), StrTok(<< >>), StrTok(<<" ", " ">>), StrTok(LongA),
     StrTok(PaddedLong), NumTok}

RawObjects ==
    {Obj(<<<<KeyTypology, t>>, <<KeyExplanation, e>>>>) :
        t \in TypologyToks, e \in ExplanationToks}
    \cup {Obj(<<<<KeyTypology, t>>>>) : t \in TypologyToks}
    \cup {Obj(<<<<KeyExplanation, e>>>>) : e \in ExplanationToks}
    \cup {Obj(<< >>),
          <<WS>> \o Obj(<<<<KeyExplanation, StrTok(OfficeSuite)>>,
                          <<KeyTypology, StrTok(Marketing)>>>>) \o <<WS>>,
          <<LBrace, WS, StrTok(KeyTypology), WS, Colon, StrTok(Development), RBrace>>,
          Obj(<<<<KeyTypology, StrTok(Design)>>, <<KeyTypology, StrTok(Finance)>>>>),
          Obj(<<<<KeyTypology, StrTok(Design)>>, <<KeyTypology, StrTok(NotARealLabel)>>,
                <<DescKey, StrTok(OfficeSuite)>>>>)}

RawNotObjects ==
    { <<LBracket, StrTok(Design), Comma, StrTok(OfficeSuite), RBracket>>,
      <<LBracket, RBracket>>,
      <<StrTok(Design)>>,
      <<NumTok>>,
      <<NullTok>> }

RawMalformed ==
    { << >>,
      <<WS>>,
      <<Junk>>,
      <<LBrace, StrTok(KeyTypology), Colon, StrTok(Design)>>,
      <<LBrace, StrTok(KeyTypology), StrTok(Design), RBrace>>,
      <<LBrace, StrTok(KeyTypology), Colon, StrTok(Design), Comma, RBrace>>,
      <<LBracket, StrTok(Design), RBrace>>,
      Obj(<<<<KeyTypology, StrTok(Design)>>>>) \o <<Junk>> }

RawTexts == RawObjects \cup RawNotObjects \cup RawMalformed

Replies == {TransportFailure, Reply(None)} \cup {Reply(Some(r)) : r \in RawTexts}

\* the outcomes a provider call of a classification cycle ends in
CycleReplies ==
    {TransportFailure,
     Reply(Some(<<Junk>>)),
     Reply(Some(Obj(<<<<KeyTypology, StrTok(Design)>>,
                      <<KeyExplanation, StrTok(OfficeSuite)>>>>))),
     Reply(Some(Obj(<<<<KeyTypology, StrTok(NotARealLabel)>>,
                      <<KeyExplanation, StrTok(<< >>)>>>>)))}

\* ------------------------------------------------------------ record store
(* A License row.  store maps the license_id of every committed row to its  *)
(* other columns.  A Session's identity map (sess) maps the ids of the      *)
(* objects it holds loaded to the column values it loaded; commit expires   *)
(* every object (expire_on_commit), which empties the map.                  *)
Row(desc, typ, expl, by) ==
    [license_description |-> desc, typology |-> typ,
     explanation |-> expl, decided_by |-> by]

\* License(license_id=..., license_description=...)
License(id, desc) ==
    [license_id |-> id, license_description |-> desc,
     typology |-> None, explanation |-> None, decided_by |-> None]

Columns(lic) ==
    Row(lic.license_description, lic.typology, lic.explanation, lic.decided_by)

EmptyMap == [i \in {} |-> None]
Put(f, k, v) == [i \in DOMAIN f \cup {k} |-> IF i = k THEN v ELSE f[i]]

MANUAL == Some("manual")
LLM == Some("llm")

\* session.get(License, id): the loaded object if the session holds one,
\* else the committed row, else None
session_get(db, sess, id) ==
    IF id \in DOMAIN sess THEN Some(sess[id])
    ELSE IF id \in DOMAIN db THEN Some(db[id])
    ELSE None

\* flush of one modified object: UPDATE ... SET the columns whose value
\* differs from the loaded one
Flush(db, id, loaded, new) ==
    [db EXCEPT ![id] =
        [c \in DOMAIN loaded |-> IF new[c] # loaded[c] THEN new[c] ELSE db[id][c]]]

\* variant: an existing row is replaced by the incoming one
RECURSIVE upsert_many_replacing(_, _)
upsert_many_replacing(db, licenses) ==
    IF licenses = << >> THEN db
    ELSE upsert_many_replacing(
             Put(db, Head(licenses).license_id, Columns(Head(licenses))),
             Tail(licenses))

\* variant: an existing row is left as it is
RECURSIVE upsert_many_insert_only(_, _)
upsert_many_insert_only(db, licenses) ==
    IF licenses = << >> THEN db
    ELSE upsert_many_insert_only(
             IF Head(licenses).license_id \in DOMAIN db
             THEN db
             ELSE Put(db, Head(licenses).license_id, Columns(Head(licenses))),
             Tail(licenses))

\* LicenseRepo.upsert_many
RECURSIVE upsert_many(_, _)
upsert_many(db, licenses) ==
    IF licenses = << >> THEN db
    ELSE LET lic == Head(licenses)
             id == lic.license_id
         IN  upsert_many(
                 IF id \in DOMAIN db
                 THEN [db EXCEPT ![id].license_description = lic.license_description]
                 ELSE Put(db, id, Columns(lic)),
                 Tail(licenses))

\* LicenseRepo.list_all: the ids of the rows, ascending
RECURSIVE SortedIds(_)
SortedIds(S) ==
    IF S = {} THEN << >>
    ELSE LET m == CHOOSE x \in S : \A y \in S : x <= y
         IN  <<m>> \o SortedIds(S \ {m})

list_all(db) == SortedIds(DOMAIN db)

\* LicenseRepo.get
get(db, sess, id) == session_get(db, sess, id)

\* variant: a missing row is created instead of raising
update_manual_creating(db, sess, license_id, typology, explanation) ==
    LET row == Row(<< >>, Some(typology),
                   Some(Take(explanation, MaxExplanation)), MANUAL)
        db2 == IF license_id \in DOMAIN db
               THEN [db EXCEPT ![license_id] =
                        [row EXCEPT !.license_description =
                                        db[license_id].license_description]]
               ELSE Put(db, license_id, row)
    IN  [raised |-> FALSE, db |-> db2,
         sess |-> Put(EmptyMap, license_id, db2[license_id])]

\* LicenseRepo.update_manual
update_manual(db, sess, license_id, typology, explanation) ==
    LET lic == session_get(db, sess, license_id)
    IN  IF IsNone(lic)
        THEN [raised |-> TRUE, db |-> db, sess |-> sess]
        ELSE LET new == [Val(lic) EXCEPT
                            !.typology = Some(typology),
                            !.explanation = Some(Take(explanation, MaxExplanation)),
                            !.decided_by = MANUAL]
                 db2 == Flush(db, license_id, Val(lic), new)
             IN  [raised |-> FALSE, db |-> db2,
                  sess |-> Put(EmptyMap, license_id, db2[license_id])]

\* variant: the explanation is stored as given
update_llm_untruncated(db, sess, license_id, typology, explanation) ==
    LET lic == session_get(db, sess, license_id)
    IN  IF IsNone(lic)
        THEN [raised |-> FALSE, db |-> db, sess |-> sess]
        ELSE IF Val(lic).decided_by = MANUAL
        THEN [raised |-> FALSE, db |-> db,
              sess |-> Put(sess, license_id, Val(lic))]
        ELSE LET new == [Val(lic) EXCEPT
                            !.typology = Some(typology),
                            !.explanation = Some(explanation),
                            !.decided_by = LLM]
             IN  [raised |-> FALSE,
                  db |-> Flush(db, license_id, Val(lic), new),
                  sess |-> EmptyMap]

\* variant: a missing row raises, as in update_manual
update_llm_raising(db, sess, license_id, typology, explanation) ==
    LET lic == session_get(db, sess, license_id)
    IN  IF IsNone(lic)
        THEN [raised |-> TRUE, db |-> db, sess |-> sess]
        ELSE IF Val(lic).decided_by = MANUAL
        THEN [raised |-> FALSE, db |-> db,
              sess |-> Put(sess, license_id, Val(lic))]
        ELSE LET new == [Val(lic) EXCEPT
                            !.typology = Some(typology),
                            !.explanation = Some(Take(explanation, MaxExplanation)),
                            !.decided_by = LLM]
             IN  [raised |-> FALSE,
                  db |-> Flush(db, license_id, Val(lic), new),
                  sess |-> EmptyMap]

\* variant: the explanation is left as it was
update_llm_label_only(db, sess, license_id, typology, explanation) ==
    LET lic == session_get(db, sess, license_id)
    IN  IF IsNone(lic)
        THEN [raised |-> FALSE, db |-> db, sess |-> sess]
        ELSE IF Val(lic).decided_by = MANUAL
        THEN [raised |-> FALSE, db |-> db,
              sess |-> Put(sess, license_id, Val(lic))]
        ELSE LET new == [Val(lic) EXCEPT
                            !.typology = Some(typology),
                            !.decided_by = LLM]
             IN  [raised |-> FALSE,
                  db |-> Flush(db, license_id, Val(lic), new),
                  sess |-> EmptyMap]

\* LicenseRepo.update_llm
update_llm(db, sess, license_id, typology, explanation) ==
    LET lic == session_get(db, sess, license_id)
    IN  IF IsNone(lic)
        THEN [raised |-> FALSE, db |-> db, sess |-> sess]
        ELSE IF Val(lic).decided_by = MANUAL
        THEN [raised |-> FALSE, db |-> db,
              sess |-> Put(sess, license_id, Val(lic))]
        ELSE LET new == [Val(lic) EXCEPT
                            !.typology = Some(typology),
                            !.explanation = Some(Take(explanation, MaxExplanation)),
                            !.decided_by = LLM]
             IN  [raised |-> FALSE,
                  db |-> Flush(db, license_id, Val(lic), new),
                  sess |-> EmptyMap]

\* ---------------------------------------------------------- spreadsheet in
IntCell(n) == [t |-> "int", n |-> n]
TextCell(s) == [t |-> "text", s |-> s]
FloatCell(ip, fd) == [t |-> "float", ip |-> ip, fd |-> fd]
NaN == [t |-> "nan"]

Digits == <<"0", "1", "2", "3", "4", "5", "6", "7", "8", "9">>
DigitChars == {Digits[i] : i \in 1..10}
DigitVal(c) == (CHOOSE i \in 1..10 : Digits[i] = c) - 1

RECURSIVE DecimalValue(_)
DecimalValue(s) ==
    IF s = << >> THEN 0
    ELSE 10 * DecimalValue(SubSeq(s, 1, Len(s) - 1)) + DigitVal(s[Len(s)])

RECURSIVE DecimalText(_)
DecimalText(n) ==
    IF n < 10 THEN <<Digits[n + 1]>>
    ELSE DecimalText(n \div 10) \o <<Digits[(n % 10) + 1]>>

\* int(cell): [ok, v]
IntOf(cell) ==
    CASE cell.t = "int" -> [ok |-> TRUE, v |-> cell.n]
      [] cell.t = "float" -> [ok |-> TRUE, v |-> cell.ip]
      [] cell.t = "text" ->
            LET d == Strip(cell.s)
            IN  IF d # << >> /\ \A i \in 1..Len(d) : d[i] \in DigitChars
                THEN [ok |-> TRUE, v |-> DecimalValue(d)]
                ELSE [ok |-> FALSE]
      [] OTHER -> [ok |-> FALSE]

\* str(cell)
StrOf(cell) ==
    CASE cell.t = "int" -> DecimalText(cell.n)
      [] cell.t = "float" -> DecimalText(cell.ip) \o <<".">> \o DecimalText(cell.fd)
      [] cell.t = "text" -> cell.s
      [] OTHER -> <<"n", "a", "n">>

ColLicenseId == <<"L", "i", "c", "e", "n", "s", "e", " ", "I", "D">>
ColLicenseDescription == <<"L", "i", "c", "e", "n", "s", "e", " ", "D", "e", "s", "c", "r", "i", "p", "t", "i", "o", "n">>

\* row[name] after df.columns = [c.strip() ...]: 0 when no column has the name
ColIndex(columns, name) ==
    LET at == {i \in 1..Len(columns) : Strip(columns[i]) = name}
    IN  IF at = {} THEN 0 ELSE CHOOSE i \in at : \A j \in at : i <= j

NoFile == [exists |-> FALSE]
Sheet(columns, rows) == [exists |-> TRUE, columns |-> columns, rows |-> rows]

ReadFailure == [ok |-> FALSE]

\* read_licenses_from_xlsx
RECURSIVE ReadRows(_, _, _)
ReadRows(rows, ci, cd) ==
    IF rows = << >> THEN [ok |-> TRUE, items |-> << >>]
    ELSE IF ci = 0 THEN ReadFailure                       \* KeyError
    ELSE LET id == IntOf(Head(rows)[ci])
         IN  IF ~id.ok THEN ReadFailure                   \* ValueError
             ELSE IF cd = 0 THEN ReadFailure              \* KeyError
             ELSE LET rest == ReadRows(Tail(rows), ci, cd)
                  IN  IF ~rest.ok THEN ReadFailure
                      ELSE [ok |-> TRUE,
                            items |-> <<License(id.v, Strip(StrOf(Head(rows)[cd])))>>
                                        \o rest.items]

read_licenses_from_xlsx(sheet) ==
    IF ~sheet.exists THEN ReadFailure                     \* FileNotFoundError
    ELSE ReadRows(sheet.rows,
                  ColIndex(sheet.columns, ColLicenseId),
                  ColIndex(sheet.columns, ColLicenseDescription))

\* the sheet has no "License ID" or no "License Description" column
LacksColumn(sheet) ==
    /\ sheet.exists
    /\ \/ ColIndex(sheet.columns, ColLicenseId) = 0
       \/ ColIndex(sheet.columns, ColLicenseDescription) = 0

\* int() raises for the License ID of some row of the sheet
HasBadId(sheet) ==
    /\ sheet.exists
    /\ LET ci == ColIndex(sheet.columns, ColLicenseId)
       IN  /\ ci # 0
           /\ \E i \in 1..Len(sheet.rows) : ~IntOf(sheet.rows[i][ci]).ok

\* export_to_xlsx: one row of five columns per record, in the order given
export_to_xlsx(db, records) ==
    [i \in 1..Len(records) |->
        <<records[i], db[records[i]].license_description, db[records[i]].typology,
          db[records[i]].explanation, db[records[i]].decided_by>>]

\* ------------------------------------------------------------------ inputs
Ids == 1..MaxId
\* the ids requests name: the first two, and one no sheet ever holds
PatchIds == {1, 2, MaxId + 1}

DescA == <<"a">>
DescB == <<" ", "b", " ">>

\* license descriptions as stored (trimmed)
LicenseNames == {DescA, Strip(DescB)}

GoodColumns == <<ColLicenseId, ColLicenseDescription>>
PaddedColumns == <<<<" ">> \o ColLicenseDescription, ColLicenseId \o <<" ">>, DescA>>
NoIdColumns == <<ColLicenseDescription>>

\* a sheet listing the ids 1..k, and one listing them in descending order
RECURSIVE RowsUpTo(_)
RowsUpTo(k) ==
    IF k = 0 THEN << >>
    ELSE Append(RowsUpTo(k - 1), <<IntCell(k), TextCell(DescA)>>)

RECURSIVE RowsDownFrom(_)
RowsDownFrom(k) ==
    IF k = 0 THEN << >>
    ELSE <<<<IntCell(k), TextCell(DescA)>>>> \o RowsDownFrom(k - 1)

BadRow == <<TextCell(<<"x">>), TextCell(DescA)>>

Sheets ==
    {NoFile}
    \cup {Sheet(GoodColumns, RowsUpTo(k)) : k \in 0..MaxId}
    \cup {Sheet(GoodColumns, RowsDownFrom(k)) : k \in 2..MaxId}
    \cup {Sheet(GoodColumns, Append(RowsUpTo(MaxId), BadRow)),
          Sheet(GoodColumns, <<BadRow>> \o RowsUpTo(1))}
    \cup {Sheet(NoIdColumns, << >>), Sheet(NoIdColumns, <<<<TextCell(DescA)>>>>),
          Sheet(<<ColLicenseId>>, <<<<IntCell(1)>>>>),
          Sheet(PaddedColumns, <<<<TextCell(DescB), TextCell(<<" ", "1">>), NaN>>>>),
          Sheet(GoodColumns, <<<<FloatCell(1, 5), TextCell(DescB)>>,
                               <<IntCell(1), TextCell(DescB)>>>>),
          Sheet(GoodColumns, <<<<IntCell(1), IntCell(7)>>, <<NaN, TextCell(DescA)>>>>)}

\* sequences over S of length at most k
RECURSIVE SeqsUpTo(_, _)
SeqsUpTo(S, k) ==
    IF k = 0 THEN {<< >>}
    ELSE LET shorter == SeqsUpTo(S, k - 1)
         IN  shorter \cup {Append(q, x) : q \in {r \in shorter : Len(r) = k - 1}, x \in S}

PatchTypologies == {Finance, NotARealLabel}
PatchExplanations == {LongAB}

\* ------------------------------------------------------------------- state
VARIABLES
    store,          \* the license table: license_id -> columns
    llm_provider,   \* settings.llm_provider
    pc,             \* where the POST /classify request in flight is
    records,        \* classify_all's records (ids, in list_all order)
    idx,            \* position of the loop in records
    sess,           \* identity map of the request's Session
    output,         \* the output spreadsheet: None or Some(rows)
    event,          \* the operation just performed, its inputs and its outcome
    cyc,            \* the last POST /classify: state at its start, what it did
                    \* (store after its upsert, provider results it applied)
    n               \* requests and calls made so far

vars == <<store, llm_provider, pc, records, idx, sess, output, event, cyc, n>>

NoCycle ==
    [store |-> EmptyMap, output |-> None, status |-> "none", clean |-> TRUE,
     called |-> {}, failed_id |-> 0, ingested |-> EmptyMap, applied |-> EmptyMap]

\* Settings.llm_provider when LLM_PROVIDER is not set
DefaultProvider == "ollama"

\* the service started on an empty database with the default settings
Init ==
    /\ store = EmptyMap
    /\ llm_provider = DefaultProvider
    /\ pc = "idle"
    /\ records = << >>
    /\ idx = 0
    /\ sess = EmptyMap
    /\ output = None
    /\ event = [op |-> "init"]
    /\ cyc = NoCycle
    /\ n = [requests |-> 0, repo |-> 0]

\* the same with LLM_PROVIDER set to either backend
InitProvider ==
    /\ store = EmptyMap
    /\ llm_provider \in Providers
    /\ pc = "idle"
    /\ records = << >>
    /\ idx = 0
    /\ sess = EmptyMap
    /\ output = None
    /\ event = [op |-> "init"]
    /\ cyc = NoCycle
    /\ n = [requests |-> 0, repo |-> 0]

\* variant: the failure is swallowed and the loop goes on
OnProviderFailure_swallowed(recs, i) ==
    [pc |-> "loop", records |-> recs, idx |-> i + 1]

\* classify_license raises inside the loop: nothing catches it, the request ends
OnProviderFailure(recs, i) ==
    [pc |-> "idle", records |-> << >>, idx |-> 0]

\* variant: the request's failure undoes what the request had committed
CloseSession_rolling_back(committed, at_start) == at_start

\* the Session of a request that failed is closed: what its commits wrote stays
CloseSession(committed, at_start) == committed

\* if r.decided_by == "manual": continue
SkipRecord(r) == r.decided_by = MANUAL

\* POST /classify, step 1: read the spreadsheet and upsert (one transaction)
ClassifyIngest(sheet) ==
    /\ pc = "idle"
    /\ n.requests < MaxRequests
    /\ n' = [n EXCEPT !.requests = @ + 1]
    /\ LET rd == read_licenses_from_xlsx(sheet)
       IN  IF rd.ok
           THEN /\ store' = upsert_many(store, rd.items)
                /\ pc' = "ingested"
                /\ cyc' = [NoCycle EXCEPT !.store = store, !.output = output,
                                          !.status = "running",
                                          !.ingested = upsert_many(store, rd.items)]
                /\ event' = [op |-> "ingest", status |-> 0,
                             items |-> rd.items, before |-> store,
                             lacks_column |-> LacksColumn(sheet),
                             bad_id |-> HasBadId(sheet)]
           ELSE /\ store' = store
                /\ pc' = "idle"
                /\ cyc' = [NoCycle EXCEPT !.store = store, !.output = output,
                                          !.status = "failed"]
                /\ event' = [op |-> "ingest", status |-> 500,
                             items |-> << >>, before |-> store,
                             lacks_column |-> LacksColumn(sheet),
                             bad_id |-> HasBadId(sheet)]
    /\ sess' = EmptyMap
    /\ records' = << >>
    /\ idx' = 0
    /\ UNCHANGED <<llm_provider, output>>

\* records = repo.list_all(session)
ClassifyList ==
    /\ pc = "ingested"
    /\ records' = list_all(store)
    /\ sess' = store
    /\ idx' = 1
    /\ pc' = "loop"
    /\ event' = [op |-> "list"]
    /\ UNCHANGED <<store, llm_provider, output, cyc, n>>

\* one iteration of the loop up to the provider call
ClassifyCheck ==
    /\ pc = "loop"
    /\ idx <= Len(records)
    /\ LET id == records[idx]
           r == Val(session_get(store, sess, id))
       IN  /\ sess' = Put(sess, id, r)
           /\ IF SkipRecord(r)
              THEN /\ idx' = idx + 1
                   /\ pc' = "loop"
                   /\ cyc' = cyc
              ELSE /\ idx' = idx
                   /\ pc' = "await"
                   /\ cyc' = [cyc EXCEPT !.called = @ \cup {id}]
           /\ event' = [op |-> "check", id |-> id, skipped |-> SkipRecord(r)]
    /\ UNCHANGED <<store, llm_provider, records, output, n>>

\* the provider call returns: update_llm, or the failure ends the request
ClassifyReturn(reply) ==
    /\ pc = "await"
    /\ LET id == records[idx]
           result == classify_license(llm_provider, reply)
       IN  IF result.ok
           THEN LET u == update_llm(store, sess, id, result.typology, result.explanation)
                IN  /\ store' = u.db
                    /\ sess' = u.sess
                    /\ idx' = idx + 1
                    /\ pc' = "loop"
                    /\ records' = records
                    /\ cyc' = [cyc EXCEPT !.applied = Put(@, id,
                                   [typology |-> result.typology,
                                    explanation |-> result.explanation])]
                    /\ event' = [op |-> "classified", id |-> id,
                                 result |-> result, status |-> 0]
           ELSE LET f == OnProviderFailure(records, idx)
                IN  /\ store' = CloseSession(store, cyc.store)
                    /\ sess' = IF f.pc = "idle" THEN EmptyMap ELSE sess
                    /\ idx' = f.idx
                    /\ pc' = f.pc
                    /\ records' = f.records
                    /\ cyc' = [cyc EXCEPT !.status = "failed", !.failed_id = id]
                    /\ event' = [op |-> "classified", id |-> id,
                                 result |-> result, status |-> 500, before |-> store]
    /\ UNCHANGED <<llm_provider, output, n>>

\* step 3: list_all again, write the output spreadsheet, answer 200
ClassifyExport ==
    /\ pc = "loop"
    /\ idx > Len(records)
    /\ LET updated == list_all(store)
       IN  /\ output' = Some(export_to_xlsx(store, updated))
           /\ event' = [op |-> "export", status |-> 200, count |-> Len(updated)]
    /\ cyc' = [cyc EXCEPT !.status = "ok"]
    /\ pc' = "idle"
    /\ records' = << >>
    /\ idx' = 0
    /\ sess' = EmptyMap
    /\ UNCHANGED <<store, llm_provider, n>>

\* GET /licenses
ListLicenses ==
    /\ list_all(store) \in Seq(Ids)
    /\ UNCHANGED vars

\* PATCH /licenses/{license_id}, in a Session of its own
UpdateLicense(license_id, typology, explanation) ==
    /\ n.requests < MaxRequests
    /\ n' = [n EXCEPT !.requests = @ + 1]
    /\ LET u == update_manual(store, EmptyMap, license_id, typology, explanation)
       IN  /\ store' = u.db
           /\ event' = [op |-> "patch", id |-> license_id,
                        status |-> IF u.raised THEN 404 ELSE 200]
    /\ cyc' = [cyc EXCEPT !.clean = FALSE]
    /\ UNCHANGED <<llm_provider, pc, records, idx, sess, output>>

Next ==
    \/ \E sheet \in Sheets : ClassifyIngest(sheet)
    \/ ClassifyList
    \/ ClassifyCheck
    \/ \E reply \in CycleReplies : ClassifyReturn(reply)
    \/ ClassifyExport
    \/ ListLicenses
    \/ \E i \in PatchIds, t \in PatchTypologies, e \in PatchExplanations :
          UpdateLicense(i, t, e)

Spec == Init /\ [][Next]_vars

\* ------------------------------------------- the provider called on its own
ProviderClassify(license_name, reply) ==
    /\ event' = [op |-> "classify_license", name |-> license_name,
                 prompt |-> build_prompt(llm_provider, license_name),
                 reply |-> reply,
                 result |-> classify_license(llm_provider, reply)]
    /\ UNCHANGED <<store, llm_provider, pc, records, idx, sess, output, cyc, n>>

NextProvider ==
    \E license_name \in LicenseNames, reply \in Replies :
        ProviderClassify(license_name, reply)

SpecProvider == InitProvider /\ [][NextProvider]_vars

\* ---------------------------------------- the repository called on its own
(* Each call is made with a Session of its own, as a request handler does.  *)
DescBB == <<"b">>

RepoLicenses == {License(i, d) : i \in Ids, d \in {DescA, DescBB}}

\* no item, one item, or two items
RepoLists == SeqsUpTo(RepoLicenses, 2)

RepoTypologies == {Design, NotARealLabel}
RepoExplanations == {OfficeSuite, LongAB}

RepoCall == n.repo < MaxRepoCalls /\ n' = [n EXCEPT !.repo = @ + 1]

RepoUpsertMany(licenses) ==
    /\ RepoCall
    /\ store' = upsert_many(store, licenses)
    /\ event' = [op |-> "upsert_many", licenses |-> licenses, before |-> store]
    /\ UNCHANGED <<llm_provider, pc, records, idx, sess, output, cyc>>

RepoListAll ==
    /\ RepoCall
    /\ event' = [op |-> "list_all", ret |-> list_all(store)]
    /\ UNCHANGED <<store, llm_provider, pc, records, idx, sess, output, cyc>>

RepoGet(license_id) ==
    /\ RepoCall
    /\ event' = [op |-> "get", id |-> license_id,
                 ret |-> get(store, EmptyMap, license_id)]
    /\ UNCHANGED <<store, llm_provider, pc, records, idx, sess, output, cyc>>

RepoUpdateManual(license_id, typology, explanation) ==
    /\ RepoCall
    /\ LET u == update_manual(store, EmptyMap, license_id, typology, explanation)
       IN  /\ store' = u.db
           /\ event' = [op |-> "update_manual", id |-> license_id,
                        typology |-> typology, explanation |-> explanation,
                        raised |-> u.raised, before |-> store]
    /\ UNCHANGED <<llm_provider, pc, records, idx, sess, output, cyc>>

RepoUpdateLlm(license_id, typology, explanation) ==
    /\ RepoCall
    /\ LET u == update_llm(store, EmptyMap, license_id, typology, explanation)
       IN  /\ store' = u.db
           /\ event' = [op |-> "update_llm", id |-> license_id,
                        typology |-> typology, explanation |-> explanation,
                        raised |-> u.raised, before |-> store]
    /\ UNCHANGED <<llm_provider, pc, records, idx, sess, output, cyc>>

NextRepo ==
    \/ \E licenses \in RepoLists : RepoUpsertMany(licenses)
    \/ RepoListAll
    \/ \E i \in PatchIds : RepoGet(i)
    \/ \E i \in PatchIds, t \in RepoTypologies, e \in RepoExplanations :
          RepoUpdateManual(i, t, e)
    \/ \E i \in PatchIds, t \in RepoTypologies, e \in RepoExplanations :
          RepoUpdateLlm(i, t, e)

SpecRepo == Init /\ [][NextRepo]_vars

\* ------------------------------------------------------------- properties
Classification(r) == <<r.typology, r.explanation, r.decided_by>>
Unclassified == <<None, None, None>>
LicenseIds(licenses) == {licenses[i].license_id : i \in 1..Len(licenses)}

\* the first 150 characters of text
IsFirst150(stored, text) ==
    /\ Len(stored) = Min(Len(text), MaxExplanation)
    /\ \A i \in 1..Len(stored) : stored[i] = text[i]

\* C1: a record that is 'manual' when a POST /classify starts keeps its
\* typology, explanation and decided_by throughout and after that cycle, as
\* long as no PATCH has run since the cycle started; this holds for every
\* cycle of a run.
C1_ManualProtected ==
    (cyc.status # "none" /\ cyc.clean) =>
        \A id \in DOMAIN cyc.store :
            cyc.store[id].decided_by = MANUAL =>
                /\ id \in DOMAIN store
                /\ Classification(store[id]) = Classification(cyc.store[id])

\* a later cycle has completed over a record overridden before it started,
\* while the provider classified another record
C1_Witness ==
    /\ n.requests >= 3
    /\ cyc.status = "ok"
    /\ cyc.clean
    /\ cyc.called # {}
    /\ \E id \in DOMAIN cyc.store : cyc.store[id].decided_by = MANUAL

\* C2: every stored typology is absent or one of the six labels.
C2_TypologyInSet ==
    \A id \in DOMAIN store :
        IsNone(store[id].typology) \/ Val(store[id].typology) \in ALLOWED

\* C3: after a cycle that completed (200) with no PATCH since it started,
\* every record that was not 'manual' has a typology of the six-label set
\* and decided_by = 'llm'.
C3_SuccessfulCycle ==
    (cyc.status = "ok" /\ cyc.clean) =>
        \A id \in DOMAIN store :
            (id \notin DOMAIN cyc.store \/ cyc.store[id].decided_by # MANUAL) =>
                /\ ~IsNone(store[id].typology)
                /\ Val(store[id].typology) \in ALLOWED
                /\ store[id].decided_by = LLM

\* a completed cycle in which the provider's label was invalid
C3_Witness ==
    /\ cyc.status = "ok"
    /\ cyc.clean
    /\ \E id \in cyc.called :
          /\ store[id].typology = Some(Productivity)
          /\ store[id].explanation = Some(FallbackSentence)
          /\ store[id].decided_by = LLM

\* an update_manual / update_llm call that wrote its row
Applied ==
    /\ event.op \in {"update_manual", "update_llm"}
    /\ event.id \in DOMAIN event.before
    /\ event.op = "update_llm" => event.before[event.id].decided_by # MANUAL

\* C4: every stored explanation is absent or at most 150 characters long,
\* and an update that wrote its row stored the first 150 characters of the
\* explanation it was given.
C4_ExplanationCapped ==
    /\ \A id \in DOMAIN store :
          IsNone(store[id].explanation)
          \/ Len(Val(store[id].explanation)) <= MaxExplanation
    /\ Applied =>
          /\ ~IsNone(store[event.id].explanation)
          /\ IsFirst150(Val(store[event.id].explanation), event.explanation)

\* update_manual has cut an explanation longer than 150 characters, next to
\* a row whose explanation update_llm cut
C4_Witness ==
    /\ event.op = "update_manual"
    /\ Applied
    /\ Len(event.explanation) > MaxExplanation
    /\ \E id \in DOMAIN store :
          /\ store[id].decided_by = LLM
          /\ Len(Val(store[id].explanation)) = MaxExplanation

\* the description upsert_many leaves for id: that of the last item with the id
RECURSIVE LastDescription(_, _)
LastDescription(licenses, id) ==
    IF licenses[Len(licenses)].license_id = id
    THEN licenses[Len(licenses)].license_description
    ELSE LastDescription(SubSeq(licenses, 1, Len(licenses) - 1), id)

\* C5: upsert_many run again with the same input changes nothing, and for a
\* license_id that existed it replaces license_description only: typology,
\* explanation and decided_by keep their values; other rows are untouched.
C5_UpsertIdempotent ==
    event.op = "upsert_many" =>
        /\ upsert_many(store, event.licenses) = store
        /\ \A id \in DOMAIN event.before :
              /\ id \in DOMAIN store
              /\ Classification(store[id]) = Classification(event.before[id])
              /\ IF id \in LicenseIds(event.licenses)
                 THEN store[id].license_description
                         = LastDescription(event.licenses, id)
                 ELSE store[id] = event.before[id]

\* upsert_many has replaced the description of a classified row
C5_Witness ==
    /\ event.op = "upsert_many"
    /\ \E id \in DOMAIN event.before \cap LicenseIds(event.licenses) :
          /\ event.before[id].decided_by # None
          /\ store[id].license_description # event.before[id].license_description

\* C6: a PATCH for a license_id that is not in the store answers 404 and
\* leaves the store as it was: no row is created, none is modified.
C6_PatchMissing ==
    [][(event'.op = "patch" /\ event'.id \notin DOMAIN store) =>
          (event'.status = 404 /\ store' = store)]_vars

\* a PATCH for a missing id was answered 404 on a store that holds records
C6_Witness ==
    /\ event.op = "patch"
    /\ event.status = 404
    /\ event.id \notin DOMAIN store
    /\ DOMAIN store # {}

\* C7: update_llm for a license_id that is not in the store does not raise
\* and leaves the store as it was.
C7_UpdateLlmMissing ==
    (event.op = "update_llm" /\ event.id \notin DOMAIN event.before) =>
        /\ ~event.raised
        /\ store = event.before

\* update_llm for a missing id on a store that holds other records
C7_Witness ==
    /\ event.op = "update_llm"
    /\ event.id \notin DOMAIN event.before
    /\ DOMAIN event.before # {}

\* the reply's text as JSON (an absent text is the empty text)
ReplyJson(reply) ==
    json_loads(IF IsNone(reply.text) THEN << >> ELSE Val(reply.text))

IsObject(reply) ==
    reply.status = "ok" /\ ReplyJson(reply).ok /\ ReplyJson(reply).kind = "object"

IsObjectOfStrings(reply) ==
    /\ IsObject(reply)
    /\ \A k \in ReplyJson(reply).keys : ObjValue(ReplyJson(reply).inner, k).t = "str"

\* the value of key in the reply's object, trimmed; empty when the key is absent
Extracted(reply, key) ==
    IF key \in ReplyJson(reply).keys
    THEN Strip(ObjValue(ReplyJson(reply).inner, key).v)
    ELSE << >>

\* C8: for a reply that is a JSON object with string values classify_license
\* succeeds with a typology of the six-label set and an explanation of at
\* most 150 characters; a typology outside the set becomes Productivity, and
\* then the explanation becomes the fallback sentence exactly when it was
\* empty; otherwise typology and (cut) explanation are returned as extracted.
C8_ValidationFallback ==
    (event.op = "classify_license" /\ IsObjectOfStrings(event.reply)) =>
        LET typ == Extracted(event.reply, KeyTypology)
            expl == Extracted(event.reply, KeyExplanation)
            r == event.result
        IN  /\ r.ok
            /\ r.typology \in ALLOWED
            /\ Len(r.explanation) <= MaxExplanation
            /\ r.typology = (IF typ \in ALLOWED THEN typ ELSE Productivity)
            /\ IF typ \notin ALLOWED /\ expl = << >>
               THEN r.explanation = FallbackSentence
               ELSE IsFirst150(r.explanation, expl)

\* an invalid label with a non-empty explanation longer than 150 characters
C8_Witness ==
    /\ event.op = "classify_license"
    /\ IsObjectOfStrings(event.reply)
    /\ Extracted(event.reply, KeyTypology) = NotARealLabel
    /\ Len(Extracted(event.reply, KeyExplanation)) > MaxExplanation
    /\ event.result.typology = Productivity

MissesKey(reply) ==
    IsObject(reply) /\ ~({KeyTypology, KeyExplanation} \subseteq ReplyJson(reply).keys)

\* C9 as stated: a reply that is not JSON, not a JSON object, or an object
\* without the 'typology' or the 'explanation' key makes classify_license fail.
C9_SchemaFailureIsHard ==
    (event.op = "classify_license" /\ event.reply.status = "ok"
        /\ (~IsObject(event.reply) \/ MissesKey(event.reply))) =>
        ~event.result.ok

\* C9 amended: a reply that is not JSON or not a JSON object makes
\* classify_license fail; an object without the 'typology' or 'explanation'
\* key does not: with string values it yields a result (the missing key read
\* as the empty string).
C9_Amended ==
    (event.op = "classify_license" /\ event.reply.status = "ok") =>
        /\ ~IsObject(event.reply) => ~event.result.ok
        /\ (MissesKey(event.reply) /\ IsObjectOfStrings(event.reply)) =>
              event.result.ok

\* a reply that is valid JSON but an array
C9_Witness ==
    /\ event.op = "classify_license"
    /\ event.reply.status = "ok"
    /\ ReplyJson(event.reply).ok
    /\ ReplyJson(event.reply).kind = "array"
    /\ ~event.result.ok

\* C10: when classify_license fails for a record, the request is over with
\* a failure (500): the failing step changes no row, no provider call was
\* made for a later record, the output spreadsheet is the one from before
\* the request, and (no PATCH since) the failing record and every later one
\* have the classification they had when the request started.
C10_FailureAborts ==
    /\ (event.op = "classified" /\ ~event.result.ok) =>
          /\ event.status = 500
          /\ store = event.before
          /\ cyc.failed_id = event.id
    /\ cyc.failed_id # 0 =>
          /\ pc = "idle"
          /\ cyc.status = "failed"
          /\ \A id \in cyc.called : id <= cyc.failed_id
          /\ output = cyc.output
          /\ cyc.clean =>
                \A id \in DOMAIN store :
                    id >= cyc.failed_id =>
                        Classification(store[id])
                            = (IF id \in DOMAIN cyc.store
                               THEN Classification(cyc.store[id])
                               ELSE Unclassified)

\* the provider failed for the first of two records, after an earlier cycle
\* had written the output
C10_Witness ==
    /\ cyc.failed_id = 1
    /\ cyc.clean
    /\ 2 \in DOMAIN store
    /\ output # None

\* C11: update_llm is a no-op whenever the record's committed decided_by is
\* 'manual' at the moment it is invoked: when the provider call of a record
\* returns a result and the committed row is 'manual' by then (an override
\* committed during the call), the step leaves the store as it was.
C11_OverrideNotOverwritten ==
    [][(/\ pc = "await"
        /\ event'.op = "classified"
        /\ event'.result.ok
        /\ store[records[idx]].decided_by = MANUAL) => store' = store]_vars

\* C12: when the input sheet lacks a required column or the License ID of
\* one of its rows is not integer-coercible, POST /classify fails and the
\* store is as it was before the request.
C12_FormatFailureBeforeMutation ==
    (event.op = "ingest" /\ (event.lacks_column \/ event.bad_id)) =>
        /\ event.status = 500
        /\ store = event.before

AllOrNothing(r) ==
    \/ Classification(r) = Unclassified
    \/ /\ ~IsNone(r.typology)
       /\ ~IsNone(r.explanation)
       /\ r.decided_by \in {LLM, MANUAL}

\* C14: in every reachable state every record has typology, explanation and
\* decided_by all absent or all present, decided_by being 'llm' or 'manual'
\* when present; and no step removes a record or makes a present decided_by
\* absent again.
C14_AllOrNothing ==
    /\ [](\A id \in DOMAIN store : AllOrNothing(store[id]))
    /\ [][\A id \in DOMAIN store :
             /\ id \in DOMAIN store'
             /\ ~IsNone(store[id].decided_by) => ~IsNone(store'[id].decided_by)]_vars

\* after an aborted cycle and an override, the store holds an unclassified
\* record next to a manual one
C14_Witness ==
    /\ cyc.status = "failed"
    /\ \E id \in DOMAIN store : Classification(store[id]) = Unclassified
    /\ \E id \in DOMAIN store : store[id].decided_by = MANUAL

\* the classification update_llm stores for a provider result
Stored(result) ==
    <<Some(result.typology), Some(Take(result.explanation, MaxExplanation)), LLM>>

\* C15: after the provider has failed at a record, every row the cycle's
\* upsert_many wrote is in the store with the description it wrote; with no
\* PATCH since the cycle started, every non-manual record before the failing
\* one has the provider's result with decided_by 'llm', and the failing record
\* and every later one have the classification they had before the cycle.
\* Each update is a step of its own that changes only its record.
C15_AbortNotRolledBack ==
    /\ [](cyc.failed_id # 0 =>
            /\ \A id \in DOMAIN cyc.ingested :
                  /\ id \in DOMAIN store
                  /\ store[id].license_description
                        = cyc.ingested[id].license_description
            /\ cyc.clean =>
                  /\ DOMAIN cyc.applied
                        = {id \in DOMAIN cyc.ingested :
                              /\ id < cyc.failed_id
                              /\ cyc.ingested[id].decided_by # MANUAL}
                  /\ \A id \in DOMAIN cyc.applied :
                        Classification(store[id]) = Stored(cyc.applied[id])
                  /\ \A id \in DOMAIN cyc.ingested :
                        id >= cyc.failed_id =>
                            Classification(store[id])
                                = Classification(cyc.ingested[id]))
    /\ [][(event'.op = "classified" /\ event'.result.ok) =>
             \A id \in DOMAIN store :
                 id # event'.id => (id \in DOMAIN store' /\ store'[id] = store[id])]_vars

\* the provider failed at the second record, which this cycle had ingested,
\* after the first had been reclassified with a different result
C15_Witness ==
    /\ cyc.failed_id = 2
    /\ cyc.clean
    /\ 2 \notin DOMAIN cyc.store
    /\ 1 \in DOMAIN cyc.applied
    /\ 1 \in DOMAIN cyc.store
    /\ cyc.store[1].decided_by = LLM
    /\ Classification(store[1]) # Classification(cyc.store[1])

====
